---- MODULE Spec2Model ----
(***************************************************************************)
(* llllogs: a batch job that parses access-log files and stores them in a  *)
(* SQLite database.  The three identifying fields (remote host, referer,   *)
(* user agent) are stored hashed in the fact table `log`; the lookup       *)
(* tables `remote`, `referer` and `agent` map each hash to its raw value.  *)
(*                                                                         *)
(* A string that the program splits is modelled as the sequence of its     *)
(* pieces: each separator character (" " or "?") is a piece, and so is     *)
(* each maximal run of other characters.  A table is a bag of rows, so     *)
(* that duplicate rows are representable.                                  *)
(***************************************************************************)
EXTENDS Bags, FiniteSets, Integers, Sequences, TLC

VARIABLES
    db,              \* committed content of logs.db: table name -> bag of rows
    con,             \* what the connection sees: db plus the open transaction
    in_transaction,  \* the connection holds an open (write) transaction
    pc,              \* position of the process in main()
    earlier,         \* a file of this invocation has been completed
    maint,           \* number of maintenance operations performed so far
    entries,         \* the entries of the open file not yet fetched by the loop
    e,               \* the entry being processed
    pending,         \* the entries of the open file fetched so far
    alt,             \* the second entry the input files are made of
    commits,         \* con.commit() calls made for the file being processed
    exc,             \* the exception that ended the invocation, if any
    discarded,       \* that exception found written rows in the open transaction
    ingested,        \* entries written and committed since the last maintenance
    prior,           \* the tables as written when the previous file completed
    erased,          \* table name -> hashes of the rows a maintenance delete named
    twin             \* fact table of a second run fed equal-digest identities

vars == <<db, con, in_transaction, pc, earlier, maint, entries, e, pending,
          alt, commits, exc, discarded, ingested, prior, erased, twin>>

(***************************************************************************)
(* Bounds                                                                  *)
(***************************************************************************)
MaxLines == 2   \* entries of one input file
MaxMaint == 1   \* maintenance operations

(***************************************************************************)
(* Values                                                                  *)
(***************************************************************************)
None == "None"

TableNames == {"remote", "referer", "agent", "log"}
LookupNames == {"remote", "referer", "agent"}

\* The raw identity strings of the model.
RawStrings ==
    {"", "1.2.3.4", "10.0.0.10", "5.6.7.8",
     "http://h.example/", "http://a.example/",
     "curl/8.0", "curl/7.5", "Mozilla/5.0"}

\* hashlib.sha3_224(s.encode("utf-8")).hexdigest(), narrowed to its first
\* hexadecimal digit: the digest space is smaller than the string space, so
\* distinct strings can share a digest.  "-" is the text an access log holds
\* for an absent header; the parser turns it into None.
sha3_224(s) ==
    CASE s = "" -> "6"
      [] s = "http://h.example/" -> "6"
      [] s = "http://a.example/" -> "1"
      [] s = "1.2.3.4" -> "e"
      [] s = "10.0.0.10" -> "e"
      [] s = "5.6.7.8" -> "b"
      [] s = "curl/8.0" -> "e"
      [] s = "curl/7.5" -> "e"
      [] s = "Mozilla/5.0" -> "5"
      [] s = "-" -> "b"

Digests == {sha3_224(s) : s \in RawStrings}

\* User.hashed_remote, User.hashed_referer, User.hashed_agent
hashed_remote(user) == sha3_224(user.remote)
hashed_referer(user) == sha3_224(user.referer)
hashed_agent(user) == sha3_224(user.agent)

(***************************************************************************)
(* Parsed entries (the attributes of an apachelogs entry that main reads)  *)
(***************************************************************************)
base ==
    [virtual_host |-> "example.com", server_port |-> 443,
     remote_host |-> "1.2.3.4",
     headers_in |-> [Referer |-> None, User_agent |-> "curl/8.0"],
     request_line |-> <<"GET", " ", "/index.html", " ", "HTTP/1.1">>,
     request_time |-> 1, final_status |-> 200, bytes_out |-> 512]

RequestLines ==
    {<<"POST", " ", "/index.html", " ", "HTTP/1.1">>,
     <<"GET", " ", "/a/b", " ", "HTTP/1.1">>,
     <<"GET", " ", "/index.html", " ", "HTTP/2.0">>,
     <<"GET", " ", "/index.html", "?", "x=1", " ", "HTTP/1.1">>,
     <<"GET", " ", "/index.html", "?", " ", "HTTP/1.1">>,
     <<"GET", " ", "/index.html", "?", "x=1", "?", "y=2", " ", "HTTP/1.1">>,
     <<"GET", " ", "/index.html", " ", "HTTP/1.1", " ", "extra">>,
     <<"GET", " ", "/index.html">>}

\* base with exactly one attribute changed
Variants ==
    {[base EXCEPT !.virtual_host = "other.org"],
     [base EXCEPT !.server_port = 80],
     [base EXCEPT !.request_time = 2],
     [base EXCEPT !.final_status = 404],
     [base EXCEPT !.bytes_out = 1024]}
    \cup {[base EXCEPT !.remote_host = r] : r \in {"10.0.0.10", "5.6.7.8"}}
    \cup {[base EXCEPT !.headers_in.Referer = r] :
            r \in {"http://h.example/", "http://a.example/"}}
    \cup {[base EXCEPT !.headers_in.User_agent = a] :
            a \in {None, "curl/7.5", "Mozilla/5.0"}}
    \cup {[base EXCEPT !.request_line = q] : q \in RequestLines}

RECURSIVE SeqsUpTo(_, _)
SeqsUpTo(S, n) ==
    IF n = 0 THEN {<<>>}
    ELSE LET shorter == SeqsUpTo(S, n - 1)
         IN  shorter \cup {Append(s, x) : s \in {t \in shorter : Len(t) = n - 1}, x \in S}

\* f.readlines() followed by parser.parse_lines: the entries of one file
Files(a) == SeqsUpTo({base, a}, MaxLines)

(***************************************************************************)
(* Field extraction (main, lines 213-236)                                  *)
(***************************************************************************)
\* str.split(sep): cut at every occurrence of sep
RECURSIVE split(_, _)
split(s, sep) ==
    IF \A k \in 1..Len(s) : s[k] # sep THEN <<s>>
    ELSE LET k == CHOOSE n \in 1..Len(s) :
                      s[n] = sep /\ \A m \in 1..(n - 1) : s[m] # sep
         IN  <<SubSeq(s, 1, k - 1)>> \o split(SubSeq(s, k + 1, Len(s)), sep)

request_parts(entry) == split(entry.request_line, " ")

\* request_parts[1] and request_parts[2] raise IndexError on a short list
raises_IndexError(entry) == Len(request_parts(entry)) < 3

url(entry) == request_parts(entry)[2]
url_parts(entry) == split(url(entry), "?")

\* the header's text in the log kept for an absent header
or_dash(x) == IF x = None THEN "-" ELSE x

\* x or ""
or_empty(x) == IF x = None \/ x = "" THEN "" ELSE x

LogLine(entry) ==
    [server |-> [vhost |-> entry.virtual_host, port |-> entry.server_port],
     user |-> [remote |-> entry.remote_host,
               referer |-> or_empty(entry.headers_in.Referer),
               agent |-> or_empty(entry.headers_in.User_agent)],
     request |-> [time |-> entry.request_time,
                  method |-> request_parts(entry)[1],
                  path |-> url_parts(entry)[1],
                  params |-> IF Len(url_parts(entry)) > 1 THEN url_parts(entry)[2] ELSE <<>>,
                  http |-> request_parts(entry)[3],
                  status |-> entry.final_status,
                  bytes |-> entry.bytes_out]]

\* the LogLine handed to write_log_line
log_line == LogLine(e)

(***************************************************************************)
(* Storage (create_tables, write_log_line)                                 *)
(***************************************************************************)
\* hash PRIMARY KEY of the three lookup tables
lookup_unique == {"hash"}

\* the constraint with the time column left out
log_unique_without_time ==
    {"vhost", "port", "remote", "method", "path", "params", "http",
     "status", "bytes", "referer", "agent"}

\* the constraint with the bytes column left out
log_unique_without_bytes ==
    {"vhost", "port", "remote", "time", "method", "path", "params", "http",
     "status", "referer", "agent"}

\* UNIQUE (...) of the log table
log_unique ==
    {"vhost", "port", "remote", "time", "method", "path", "params", "http",
     "status", "bytes", "referer", "agent"}

\* the REFERENCES clauses enforced
foreign_keys_on == TRUE

\* PRAGMA foreign_keys of the connection: sqlite3.connect leaves it off, so
\* the REFERENCES clauses of log are not enforced
foreign_keys == FALSE

\* every statement committed at once
autocommit_on == TRUE

\* isolation_level of the connection: sqlite3.connect's default opens a
\* transaction before an INSERT and keeps it open until commit
autocommit == FALSE

conflicts(table, row, key) ==
    \E r \in BagToSet(table) : \A c \in key : r[c] = row[c]

\* a plain INSERT into a table without the constraint
insert_always(table, row, key) == table (+) SetToBag({row})

\* INSERT OR REPLACE: the conflicting rows give way to the new one
insert_or_replace(table, row, key) ==
    LET kept == {r \in BagToSet(table) : \E c \in key : r[c] # row[c]}
    IN  [r \in kept |-> CopiesIn(r, table)] (+) SetToBag({row})

\* INSERT ... ON CONFLICT DO UPDATE: the row found takes the new row's columns
insert_or_update(table, row, key) ==
    LET found == {r \in BagToSet(table) : \A c \in key : r[c] = row[c]}
    IN  [r \in BagToSet(table) \ found |-> CopiesIn(r, table)] (+) SetToBag({row})

\* INSERT OR IGNORE INTO table ... under the uniqueness constraint key
insert_or_ignore(table, row, key) ==
    IF conflicts(table, row, key) THEN table ELSE table (+) SetToBag({row})

lookup_row(h, v) == [hash |-> h, value |-> v]

\* the remote column given the raw address
fact_row_raw(l) ==
    [vhost |-> l.server.vhost,
     port |-> l.server.port,
     remote |-> l.user.remote,
     time |-> l.request.time,
     method |-> l.request.method,
     path |-> l.request.path,
     params |-> l.request.params,
     http |-> l.request.http,
     status |-> l.request.status,
     bytes |-> l.request.bytes,
     referer |-> hashed_referer(l.user),
     agent |-> hashed_agent(l.user)]

\* the VALUES tuple of the INSERT into log
fact_row(l) ==
    [vhost |-> l.server.vhost,
     port |-> l.server.port,
     remote |-> hashed_remote(l.user),
     time |-> l.request.time,
     method |-> l.request.method,
     path |-> l.request.path,
     params |-> l.request.params,
     http |-> l.request.http,
     status |-> l.request.status,
     bytes |-> l.request.bytes,
     referer |-> hashed_referer(l.user),
     agent |-> hashed_agent(l.user)]

\* DROP TABLE followed by CREATE TABLE: the four tables start empty again
create_tables_drop(d) == [t \in TableNames |-> EmptyBag]

\* CREATE TABLE IF NOT EXISTS for the four tables
create_tables(d) ==
    [t \in TableNames |-> IF t \in DOMAIN d THEN d[t] ELSE EmptyBag]

NoTables == [t \in {} |-> EmptyBag]

\* a commit that does not reach the database
commit_nothing(d, c) == d

\* con.commit(): the committed database takes the connection's content
commit(d, c) == c

\* the process ends with an open transaction: its writes are discarded
rollback(d, c) == d

\* con.commit() indented into the loop over the entries
after_write_log_line_commit == "commit"

\* where control goes when write_log_line returns: back to `for e in entries`
after_write_log_line == "for_e"

\* con.commit() moved out of the loop over the files
after_last_entry_next_file == "for_input_file"

\* where control goes when `for e in entries` is exhausted: to con.commit()
after_last_entry == "commit"

\* the fact row written first, the lookup rows after it
statements_log_first == <<"ins_log", "ins_remote", "ins_referer", "ins_agent">>

\* the four cur.execute calls of write_log_line, in the order of the code
statements == <<"ins_remote", "ins_referer", "ins_agent", "ins_log">>

\* where control goes after the statement at position p
following(p) ==
    LET k == CHOOSE n \in 1..Len(statements) : statements[n] = p
    IN  IF k = Len(statements) THEN after_write_log_line ELSE statements[k + 1]

\* the strings that share the digest of s
same_digest(s) == {v \in RawStrings : sha3_224(v) = sha3_224(s)}

\* a second run's records: same server and request, identities of equal digest
Twins(l) ==
    {[l EXCEPT !.user = [remote |-> r, referer |-> f, agent |-> a]] :
        r \in same_digest(l.user.remote),
        f \in same_digest(l.user.referer),
        a \in same_digest(l.user.agent)}

(***************************************************************************)
(* Initial state: no database file, the program not yet started            *)
(***************************************************************************)
Init ==
    /\ db = NoTables
    /\ con = NoTables
    /\ in_transaction = FALSE
    /\ pc = "start"
    /\ earlier = FALSE
    /\ maint = 0
    /\ entries = <<>>
    /\ e = base
    /\ pending = {}
    /\ alt \in Variants
    /\ commits = 0
    /\ exc = "none"
    /\ discarded = FALSE
    /\ ingested = {}
    /\ prior = NoTables
    /\ erased = [t \in LookupNames |-> {}]
    /\ twin = [db |-> EmptyBag, con |-> EmptyBag]

(***************************************************************************)
(* main()                                                                  *)
(***************************************************************************)
\* sqlite3.connect, create_tables (with its commit), reading sys.argv
Start ==
    /\ pc = "start"
    /\ db' = create_tables(db)
    /\ con' = db'
    /\ prior' = db'
    /\ in_transaction' = FALSE
    /\ pc' = "for_input_file"
    /\ UNCHANGED <<earlier, maint, entries, e, pending, alt, commits, exc, discarded,
                   ingested, erased, twin>>

\* for input_file in input_files: open, readlines, parse_lines
OpenFile ==
    /\ pc = "for_input_file"
    /\ \E c \in Files(alt) : entries' = c
    /\ pending' = {}
    /\ commits' = 0
    /\ pc' = "for_e"
    /\ UNCHANGED <<db, con, in_transaction, earlier, maint, e, alt, exc, discarded,
                   ingested, prior, erased, twin>>

\* the list of input files is exhausted: main returns
EndBatch ==
    /\ pc = "for_input_file"
    /\ pc' = "done"
    /\ commits' = 0
    /\ UNCHANGED <<db, con, in_transaction, earlier, maint, entries, e, pending, alt,
                   exc, discarded, ingested, prior, erased, twin>>

\* for e in entries: the next entry is fetched and turned into a LogLine
NextEntry ==
    /\ pc = "for_e"
    /\ entries # <<>>
    /\ ~raises_IndexError(Head(entries))
    /\ e' = Head(entries)
    /\ entries' = Tail(entries)
    /\ pending' = pending \cup {Head(entries)}
    /\ pc' = statements[1]
    /\ UNCHANGED <<db, con, in_transaction, earlier, maint, alt, commits, exc,
                   discarded, ingested, prior, erased, twin>>

\* an exception leaves main: the process ends, the open transaction is lost
Abort(x) ==
    /\ db' = db
    /\ con' = rollback(db, con)
    /\ twin' = [twin EXCEPT !.con = rollback(twin.db, twin.con)]
    /\ in_transaction' = FALSE
    /\ pc' = "failed"
    /\ exc' = x
    /\ discarded' = (con # db)
    /\ entries' = <<>>
    /\ e' = base
    /\ pending' = {}
    /\ commits' = 0
    /\ UNCHANGED <<earlier, maint, alt, ingested, prior, erased>>

\* request_parts[1] or request_parts[2] is out of range
IndexError ==
    /\ pc = "for_e"
    /\ entries # <<>>
    /\ raises_IndexError(Head(entries))
    /\ Abort("IndexError")

\* `for e in entries` is exhausted
EndFile ==
    /\ pc = "for_e"
    /\ entries = <<>>
    /\ pc' = after_last_entry
    /\ UNCHANGED <<db, con, in_transaction, earlier, maint, entries, e, pending, alt,
                   commits, exc, discarded, ingested, prior, erased, twin>>

\* one cur.execute of write_log_line, on table t; after the last one
\* write_log_line returns
Execute(here, t, row, key, next) ==
    /\ pc = here
    /\ e' = IF next = after_write_log_line THEN base ELSE e
    /\ con' = [con EXCEPT ![t] = insert_or_ignore(con[t], row, key)]
    /\ db' = IF autocommit THEN con' ELSE db
    /\ in_transaction' = ~autocommit
    /\ pc' = next
    /\ UNCHANGED <<earlier, maint, entries, pending, alt, commits, exc, discarded,
                   ingested, prior, erased>>

InsertRemote ==
    /\ Execute("ins_remote", "remote",
               lookup_row(hashed_remote(log_line.user), log_line.user.remote),
               lookup_unique, following("ins_remote"))
    /\ UNCHANGED twin

InsertReferer ==
    /\ Execute("ins_referer", "referer",
               lookup_row(hashed_referer(log_line.user), log_line.user.referer),
               lookup_unique, following("ins_referer"))
    /\ UNCHANGED twin

InsertAgent ==
    /\ Execute("ins_agent", "agent",
               lookup_row(hashed_agent(log_line.user), log_line.user.agent),
               lookup_unique, following("ins_agent"))
    /\ UNCHANGED twin

InsertLog ==
    /\ Execute("ins_log", "log", fact_row(log_line), log_unique, following("ins_log"))
    /\ twin' \in {LET c == insert_or_ignore(twin.con, fact_row(l), log_unique)
                   IN  [con |-> c, db |-> IF autocommit THEN c ELSE twin.db] :
                      l \in Twins(log_line)}

\* con.commit() after the file's entries
Commit ==
    /\ pc = "commit"
    /\ db' = commit(db, con)
    /\ con' = con
    /\ twin' = [twin EXCEPT !.db = commit(twin.db, twin.con)]
    /\ in_transaction' = FALSE
    /\ commits' = commits + 1
    /\ earlier' = TRUE
    /\ ingested' = ingested \cup pending
    /\ prior' = con
    /\ pending' = {}
    /\ pc' = "for_input_file"
    /\ UNCHANGED <<maint, entries, e, alt, exc, discarded, erased>>

\* the file cannot be opened or decoded, the parser rejects a line, or a
\* statement or the commit fails in the storage layer
Fail ==
    /\ \/ pc = "for_input_file"
       \/ pc = "for_e" /\ entries # <<>>
       \/ pc \in {"ins_remote", "ins_referer", "ins_agent", "ins_log", "commit"}
    /\ Abort("Error")

\* the program is invoked again on the same logs.db
NewRun ==
    /\ pc \in {"done", "failed"}
    /\ pc' = "start"
    /\ earlier' = FALSE
    /\ exc' = "none"
    /\ discarded' = FALSE
    /\ con' = db
    /\ UNCHANGED <<db, in_transaction, maint, entries, e, pending, alt, commits,
                   ingested, prior, erased, twin>>

(***************************************************************************)
(* Maintenance by another connection, possible while the program holds no  *)
(* transaction                                                             *)
(***************************************************************************)
referenced(d, t, r) == \E f \in BagToSet(d["log"]) : f[t] = r.hash

\* DELETE FROM t
delete_all(d, t) ==
    IF foreign_keys /\ \E r \in BagToSet(d[t]) : referenced(d, t, r)
    THEN d
    ELSE [d EXCEPT ![t] = EmptyBag]

RECURSIVE delete_from(_, _)
delete_from(d, T) ==
    IF T = {} THEN d
    ELSE LET t == CHOOSE x \in T : TRUE
         IN  delete_from(delete_all(d, t), T \ {t})

Anon == "anon"

\* UPDATE t SET value = 'anon' WHERE hash = h
overwrite(d, t, h) ==
    [d EXCEPT ![t] =
        LET old == BagToSet(d[t])
        IN  SetToBag({r \in old : r.hash # h}) (+)
            SetToBag({[r EXCEPT !.value = Anon] : r \in {x \in old : x.hash = h}})]

Idle == ~in_transaction /\ DOMAIN db = TableNames /\ pc # "start" /\ maint < MaxMaint

\* one maintenance transaction empties one lookup table or all three
DeleteAll ==
    /\ Idle
    /\ \E T \in {{t} : t \in LookupNames} \cup {LookupNames} :
          /\ \A t \in T : db[t] # EmptyBag
          /\ db' = delete_from(db, T)
          /\ con' = delete_from(con, T)
          /\ prior' = delete_from(prior, T)
          /\ erased' = [t \in LookupNames |->
                           IF t \in T
                           THEN erased[t] \cup {r.hash : r \in BagToSet(db[t])}
                           ELSE erased[t]]
    /\ ingested' = {}
    /\ maint' = maint + 1
    /\ UNCHANGED <<in_transaction, pc, earlier, entries, e, pending, alt,
                   commits, exc, discarded, twin>>

Overwrite ==
    /\ Idle
    /\ \E t \in LookupNames : \E r \in BagToSet(db[t]) :
          /\ r.value # Anon
          /\ db' = overwrite(db, t, r.hash)
          /\ con' = overwrite(con, t, r.hash)
          /\ prior' = overwrite(prior, t, r.hash)
    /\ ingested' = {}
    /\ maint' = maint + 1
    /\ UNCHANGED <<in_transaction, pc, earlier, entries, e, pending, alt,
                   commits, exc, discarded, erased, twin>>

Next ==
    \/ Start
    \/ OpenFile
    \/ EndBatch
    \/ NextEntry
    \/ IndexError
    \/ EndFile
    \/ InsertRemote
    \/ InsertReferer
    \/ InsertAgent
    \/ InsertLog
    \/ Commit
    \/ Fail
    \/ NewRun
    \/ DeleteAll
    \/ Overwrite

Spec == Init /\ [][Next]_vars

(***************************************************************************)
(* Type invariant                                                          *)
(***************************************************************************)
TypeOK ==
    /\ DOMAIN db \in {{}, TableNames}
    /\ DOMAIN con = DOMAIN db
    /\ pc \in {"start", "for_input_file", "for_e", "ins_remote", "ins_referer",
               "ins_agent", "ins_log", "commit", "done", "failed"}
    /\ Len(entries) <= MaxLines
    /\ (~in_transaction => con = db)

(***************************************************************************)
(* Properties                                                              *)
(***************************************************************************)
Counts(d) == [t \in TableNames |-> BagCardinality(d[t])]

Table(d, t) == IF t \in DOMAIN d THEN d[t] ELSE EmptyBag

Rows(d, t) == BagToSet(Table(d, t))

InFile == {"for_e", "ins_remote", "ins_referer", "ins_agent", "ins_log", "commit"}

InWrite == {"ins_remote", "ins_referer", "ins_agent", "ins_log"}

\* a step that executes the statement of write_log_line at position p
Executes(p) == pc = p /\ pc' \notin {p, "failed"}

\* C1 - Idempotence: committing a file all of whose entries were ingested
\* and committed before (the same file ingested a second time, in this
\* invocation or a later one, with no maintenance in between) leaves the row
\* counts of all four tables as they were.
C1_Idempotence ==
    [][(pc = "commit" /\ pc' = "for_input_file" /\ pending \subseteq ingested)
          => Counts(db') = Counts(db)]_vars

C1_Witness ==
    /\ pc = "commit"
    /\ ~earlier
    /\ Cardinality(pending) = 2
    /\ pending \subseteq ingested
    /\ con = db
    /\ Cardinality(Rows(db, "log")) = 2

\* C2 - Dedup key completeness: the insert into log leaves exactly one row
\* for the record written and keeps every other row, so that records equal in
\* all twelve columns share one row and records differing in any column have
\* a row each.
C2_DedupKey ==
    [][Executes("ins_log")
          => /\ Rows(con', "log") = Rows(con, "log") \cup {fact_row(log_line)}
             /\ \A r \in Rows(con', "log") : CopiesIn(r, con'["log"]) = 1]_vars

C2_Witness ==
    /\ pc = "commit"
    /\ con = db
    /\ \E r1, r2 \in Rows(con, "log") :
          /\ Cardinality({c \in log_unique : r1[c] # r2[c]}) = 1
          /\ BagCardinality(con["log"]) = 2
          /\ {fact_row(LogLine(x)) : x \in pending} = {r1, r2}

\* the target of the request line of the entry being written
Target == url(e)

HasQuery(t) == \E k \in 1..Len(t) : t[k] = "?"

\* C3 - Split correctness: path is the target up to its first "?" and params
\* is everything after that "?", so that path, "?" and params make up the
\* target again; without a "?" path is the target and params is empty.
C3_SplitOnFirst ==
    pc \in InWrite =>
        LET path == log_line.request.path
            params == log_line.request.params
        IN  IF HasQuery(Target)
            THEN /\ ~HasQuery(path)
                 /\ path \o <<"?">> \o params = Target
            ELSE /\ path = Target
                 /\ params = <<>>

\* C4 - A malformed request line is rejected alone: the entry whose request
\* line has fewer than three tokens is skipped, the loop goes on to the next
\* entry of the file and nothing written so far is lost.
C4_MalformedSkipped ==
    [][(/\ pc = "for_e"
        /\ entries # <<>>
        /\ raises_IndexError(Head(entries))
        /\ exc' # "Error")
          => /\ pc' = "for_e"
             /\ entries' = Tail(entries)
             /\ con' = con]_vars

\* C5 - One commit per file, after its last record: a commit is made only
\* when every entry of the file has been handed to write_log_line and no
\* commit was made for the file before; the program does not change the
\* committed database between two records of a file; and a file whose processing
\* completes, also one without entries, has exactly one commit.
C5_CommitOncePerFile ==
    [][/\ (commits' # commits /\ commits' # 0)
             => (pc = "commit" /\ entries = <<>> /\ commits = 0 /\ commits' = 1)
       /\ (pc \in InFile /\ db' # db /\ maint' = maint) => commits' = commits + 1
       /\ (pc \in InFile /\ pc' = "for_input_file") => commits' = 1]_vars

C5_Witness ==
    /\ pc = "for_input_file"
    /\ commits = 1
    /\ Cardinality(ingested) = 2
    /\ Cardinality(Rows(db, "log")) = 2

\* C6 - Per-file atomicity: after a failure the committed database holds no
\* row beyond those present when the previous file completed, and the
\* connection's uncommitted rows are gone.
C6_FileAtomic ==
    pc = "failed" =>
        /\ \A t \in DOMAIN db : db[t] \sqsubseteq prior[t]
        /\ con = db

C6_Witness ==
    /\ pc = "failed"
    /\ discarded
    /\ exc = "Error"
    /\ db = prior

\* C7 - Earlier files stay committed: after a failure every row written for
\* the files completed before is in the committed database.
C7_PriorFilesKept ==
    pc = "failed" => \A t \in DOMAIN prior : prior[t] \sqsubseteq db[t]

C7_Witness ==
    /\ pc = "failed"
    /\ earlier
    /\ discarded
    /\ Rows(db, "log") # {}
    /\ db = prior

\* C8 - Referential non-blocking: a maintenance delete of the rows of a
\* lookup table empties that table and leaves the log table as it was; and
\* every later insert into log puts the record's row there, whatever was
\* deleted.
C8_NonBlocking ==
    [][/\ \A t \in LookupNames :
             erased'[t] # erased[t] => (db'[t] = EmptyBag /\ db'["log"] = db["log"])
       /\ Executes("ins_log") => fact_row(log_line) \in Rows(con', "log")]_vars

C8_Witness ==
    /\ Rows(db, "log") # {}
    /\ \E r \in Rows(con, "log") \ Rows(db, "log") : r.referer \in erased["referer"]

\* C9 - One value per hash, first write wins: no lookup table ever holds two
\* rows with the same hash, and a statement of write_log_line leaves every
\* row a lookup table already holds as it is, also a row whose value was
\* overwritten by maintenance.
UniqueHash(d) ==
    \A t \in LookupNames \cap DOMAIN d :
        \A r1, r2 \in BagToSet(d[t]) :
            /\ CopiesIn(r1, d[t]) = 1
            /\ r1.hash = r2.hash => r1 = r2

C9_FirstWriteWins ==
    /\ [](UniqueHash(db) /\ UniqueHash(con))
    /\ [][(\E p \in InWrite : Executes(p))
             => \A t \in LookupNames : Rows(con, t) \subseteq Rows(con', t)]_vars

C9_Witness ==
    /\ pc = "ins_referer"
    /\ \E r \in Rows(con, "remote") :
          /\ r.hash = hashed_remote(log_line.user)
          /\ r.value = Anon

\* C10 - Pseudonymised fact table: the identity columns of every log row
\* hold digests and never a raw value; once the three lookup tables are
\* empty no raw identity value is left in the database; and a run fed
\* identities of equal digests has the same fact table.
IdentityValues(d) ==
    UNION {{r.remote, r.referer, r.agent} : r \in Rows(d, "log")}
    \cup UNION {{r.hash, r.value} : r \in UNION {Rows(d, t) : t \in LookupNames}}

C10_Pseudonymised ==
    /\ \A d \in {db, con} : \A r \in Rows(d, "log") :
          /\ {r.remote, r.referer, r.agent} \subseteq Digests
          /\ {r.remote, r.referer, r.agent} \cap RawStrings = {}
    /\ (\A t \in LookupNames : Rows(db, t) = {}) => IdentityValues(db) \cap RawStrings = {}
    /\ twin.db = Table(db, "log")
    /\ twin.con = Table(con, "log")

C10_Witness ==
    /\ Cardinality(Rows(db, "log")) = 2
    /\ \A t \in LookupNames : Rows(db, t) = {} /\ erased[t] # {}
    /\ twin.db = Table(db, "log")

\* C11 - create_tables is create-if-not-exists and never destructive: the
\* startup step leaves every table that exists with every row it holds, all
\* four tables exist afterwards, and invoking create_tables again on the
\* result, or twice on the database found, gives what one invocation gave.
C11_CreateIfNotExists ==
    [][(pc = "start" /\ pc' = "for_input_file")
          => /\ \A t \in DOMAIN db : db'[t] = db[t]
             /\ DOMAIN db' = TableNames
             /\ create_tables(db') = db'
             /\ create_tables(create_tables(db)) = db']_vars

C11_Witness ==
    /\ pc = "for_input_file"
    /\ ~earlier
    /\ \A t \in TableNames : Rows(db, t) # {}
    /\ db = prior

\* C12 - An absent Referer or User-agent is ingested as the empty string,
\* never null: the record built from such an entry carries "", its lookup
\* insert leaves a row keyed hash("") in the table, the row (hash(""), "")
\* itself unless the key was taken before, its fact row holds hash("") in
\* that column, and no stored identity column ever holds None.
Absent(entry, header) == entry.headers_in[header] = None

KeyTaken(d, t, h) == \E r \in Rows(d, t) : r.hash = h

C12_AbsentIsEmpty ==
    /\ [](\A d \in {db, con} :
            /\ \A t \in LookupNames : \A r \in Rows(d, t) : None \notin {r.hash, r.value}
            /\ \A r \in Rows(d, "log") : None \notin {r.remote, r.referer, r.agent})
    /\ [][/\ (Executes("ins_referer") /\ Absent(e, "Referer"))
               => /\ log_line.user.referer = ""
                  /\ KeyTaken(con', "referer", sha3_224(""))
                  /\ KeyTaken(con, "referer", sha3_224(""))
                        \/ lookup_row(sha3_224(""), "") \in Rows(con', "referer")
          /\ (Executes("ins_agent") /\ Absent(e, "User_agent"))
               => /\ log_line.user.agent = ""
                  /\ KeyTaken(con', "agent", sha3_224(""))
                  /\ KeyTaken(con, "agent", sha3_224(""))
                        \/ lookup_row(sha3_224(""), "") \in Rows(con', "agent")
          /\ (Executes("ins_log") /\ Absent(e, "Referer"))
               => \E r \in Rows(con', "log") :
                     r = fact_row(log_line) /\ r.referer = sha3_224("")
          /\ (Executes("ins_log") /\ Absent(e, "User_agent"))
               => \E r \in Rows(con', "log") :
                     r = fact_row(log_line) /\ r.agent = sha3_224("")]_vars

C12_Witness ==
    /\ pc = "for_input_file"
    /\ \A t \in {"referer", "agent"} : lookup_row(sha3_224(""), "") \in Rows(db, t)
    /\ \E r \in Rows(db, "log") : r.referer = sha3_224("") /\ r.agent = sha3_224("")
    /\ \A x \in ingested : Absent(x, "Referer")
    /\ \E x \in ingested : Absent(x, "User_agent")

\* C13 - Referential consistency: the three lookup inserts come before the
\* insert into log, so when that insert executes the keys of its row are in
\* the lookup tables; and as long as nothing was deleted from a lookup
\* table, every log row of the committed database and of the connection,
\* between the statements of write_log_line too, has its remote, referer
\* and agent hash as the key of a row of the table of that name.
Referenced(d) ==
    \A r \in Rows(d, "log") : \A t \in LookupNames : KeyTaken(d, t, r[t])

C13_ReferentialConsistency ==
    /\ []((\A t \in LookupNames : erased[t] = {}) => (Referenced(db) /\ Referenced(con)))
    /\ [][Executes("ins_log")
             => \A t \in LookupNames : KeyTaken(con, t, fact_row(log_line)[t])]_vars

C13_Witness ==
    /\ pc = "ins_log"
    /\ \A t \in LookupNames : erased[t] = {}
    /\ Rows(db, "log") # {}
    /\ \E t \in LookupNames : Rows(con, t) # Rows(db, t)
    /\ fact_row(log_line) \notin Rows(con, "log")

\* C14 - Rows are created once and never change under ingestion: no step of
\* the program removes or alters a row of the committed database, a
\* statement of write_log_line keeps every row the connection sees, a
\* statement whose row is already there changes nothing, raises no exception
\* and hands control to the statement after it.
Duplicate ==
    CASE pc = "ins_remote" -> KeyTaken(con, "remote", hashed_remote(log_line.user))
      [] pc = "ins_referer" -> KeyTaken(con, "referer", hashed_referer(log_line.user))
      [] pc = "ins_agent" -> KeyTaken(con, "agent", hashed_agent(log_line.user))
      [] pc = "ins_log" -> fact_row(log_line) \in Rows(con, "log")
      [] OTHER -> FALSE

C14_RowsImmutable ==
    [][/\ (maint' = maint /\ DOMAIN db = TableNames)
            => \A t \in TableNames : db[t] \sqsubseteq db'[t]
       /\ (\E p \in InWrite : Executes(p))
            => /\ \A t \in TableNames : con[t] \sqsubseteq con'[t]
               /\ Duplicate => (con' = con /\ exc' = "none" /\ pc' = following(pc))]_vars

C14_Witness ==
    /\ pc = "for_e"
    /\ entries = <<>>
    /\ in_transaction
    /\ con = db
    /\ Cardinality(pending) = 1
    /\ Rows(db, "log") = {fact_row(LogLine(x)) : x \in pending}

\* C15 - Files are processed one after the other: when the program is
\* between two files, before the first or after the last, no transaction is
\* open and the connection sees the committed database, so every write of a
\* file and its commit precede the next file's first write; and every
\* uncommitted row was written for an entry of the file now open.
LookupRowOf(entry, t) ==
    LET user == LogLine(entry).user
    IN  CASE t = "remote" -> lookup_row(hashed_remote(user), user.remote)
          [] t = "referer" -> lookup_row(hashed_referer(user), user.referer)
          [] t = "agent" -> lookup_row(hashed_agent(user), user.agent)

Uncommitted(t) == Rows(con, t) \ Rows(db, t)

C15_FilesSequential ==
    /\ pc \in {"start", "for_input_file", "done", "failed"}
          => (~in_transaction /\ con = db)
    /\ pc \in InFile
          => /\ Uncommitted("log") \subseteq {fact_row(LogLine(x)) : x \in pending}
             /\ \A t \in LookupNames :
                   Uncommitted(t) \subseteq {LookupRowOf(x, t) : x \in pending}

C15_Witness ==
    /\ pc = "commit"
    /\ earlier
    /\ in_transaction
    /\ Rows(db, "log") # {}
    /\ Uncommitted("log") # {}
    /\ \E t \in LookupNames : Uncommitted(t) # {}

\* C16 - Order and multiplicity independence: from an empty database, with
\* no maintenance, the committed tables are a function of the set of records
\* ingested so far, whatever the files, their order, the order of their
\* lines and the repetitions were: log holds one row for each distinct
\* record, each lookup table one row for each distinct hash, and, no two
\* ingested values sharing a digest, exactly the row of each value.
Ingested(t) == {LookupRowOf(x, t) : x \in ingested}

CollisionFree ==
    \A t \in LookupNames : \A r1, r2 \in Ingested(t) : r1.hash = r2.hash => r1 = r2

C16_OrderIndependent ==
    (maint = 0 /\ DOMAIN db = TableNames) =>
        /\ db["log"] = SetToBag({fact_row(LogLine(x)) : x \in ingested})
        /\ \A t \in LookupNames :
              /\ {r.hash : r \in Rows(db, t)} = {r.hash : r \in Ingested(t)}
              /\ Rows(db, t) \subseteq Ingested(t)
              /\ BagCardinality(db[t]) = Cardinality({r.hash : r \in Ingested(t)})
              /\ CollisionFree => db[t] = SetToBag(Ingested(t))

C16_Witness ==
    /\ pc = "done"
    /\ maint = 0
    /\ exc = "none"
    /\ CollisionFree
    /\ Cardinality(ingested) = 2
    /\ BagCardinality(db["log"]) = 2
    /\ \E t \in LookupNames : BagCardinality(db[t]) = 2
====
